---- MODULE Spec2Model ----
(***************************************************************************)
(* Model of torchreid/engine/engine.py (class Engine): the epoch-interval  *)
(* policy, the LR-plateau checkpoint selector, the evaluation dispatcher   *)
(* Engine.test(), the epoch/batch loop of Engine.run()/Engine.train() and  *)
(* the checkpoint writer Engine.save_model().                              *)
(*                                                                         *)
(* Numbers.  Learning rates are integers in units of 1e-5 (1 = 1e-5).      *)
(* Top-1 values are integers in units of 1e-5, so that np.round(top1, 4)   *)
(* is a real conversion: it maps a value to the nearest multiple of 10.    *)
(* Python's None is the integer None (-1); every modelled quantity that    *)
(* may be None is otherwise non-negative.                                  *)
(***************************************************************************)
EXTENDS Integers, Sequences, FiniteSets, TLC

None == -1

\* ---- bounds ------------------------------------------------------------
MaxTop1 == 6        \* top-1 inputs are 0..MaxTop1 (x 1e-5) and the value 50.0
MaxLR == 2          \* learning rates are 1..MaxLR (x 1e-5)
MaxPatience == 3    \* train_patience is 0..MaxPatience
MaxCalls == 5       \* calls of the selector in one behaviour
MaxEpoch == 3       \* epochs and interval bounds are 0..MaxEpoch
MaxModels == 3      \* registered models
MaxDatasets == 2    \* test datasets
MaxBatches == 2     \* batches of the training loader
MaxRequest == 2     \* names in one get_model_names request
MaxGallery == 3     \* gallery images
MaxLines == 2       \* lines of a tracks file
MaxLineLen == 2     \* ids on one line of a tracks file

Top1Values == (0 .. MaxTop1) \cup {5000000}
LRValues == 1 .. MaxLR
Kinds == {"classification", "contrastive", "reid"}
DatasetNames == {"market1501", "cuhk03", "lfw"}
Layers == {"backbone", "classifier"}

SeqsUpTo(S, lo, hi) == UNION {[1 .. n -> S] : n \in lo .. hi}
\* the keys of a dict: no name twice
KeySeqs(S, lo, hi) == {q \in SeqsUpTo(S, lo, hi) : \A i, j \in DOMAIN q : q[i] = q[j] => i = j}

VARIABLES
    \* CheckpointSelector part of the engine state (engine.py 69-93)
    best_metric, iter_to_wait, lr_prev_best_metric, lr_of_previous_iter,
    lb_lr, train_patience,
    \* what the last call of exit_on_plateau_and_choose_best returned
    should_exit, is_candidate_for_best,
    \* history of the selector calls
    ncalls, call_top1, call_lr, lr_changed, same_seq, inc_raw, inc_rnd,
    \* non-candidate calls since the last best-candidate call, the largest rounded
    \* top-1 of the calls at the current LR, best_metric before the last call
    noncand_run, bucket_max, prev_best,
    \* epoch-interval policy: arguments and result of one evaluation
    iv_interval, iv_epoch, iv_called, iv_result,
    \* evaluation dispatcher: configuration and loop position of Engine.test
    test_datasets, model_kinds, t_pc, t_di, t_mi, t_cur, t_top, t_ret,
    \* the engine: constructor and run() arguments, registry, model objects
    cfg, model_names, model_names_to_freeze, models, cur_lr,
    \* TrainingState and the position of run()/train()
    epoch, start_epoch, max_epoch, fixbase_epoch, batch_idx,
    pc, next_epoch, batch_next, stop,
    \* what the run has done so far
    processed, fb_started, epochs_started, stop_in_call, ntests,
    checkpoints, latest, result, err,
    \* history of the run: final evaluations and the top-1 of the last one,
    \* update_lr calls, periodic evaluations, whether the loop ended by early
    \* stop, the epoch index of every selector call, completed save_model calls,
    \* whether a checkpoint write has raised
    nfinal, final_top1, sched_steps, nperiodic, early_stopped, sel_epochs, nsaves,
    write_failed,
    \* history of train(): the calls made in the current epoch, the scheduler
    \* steps of the last update_lr call, the LR in effect when the batch loop of the
    \* current epoch ended
    epoch_steps, sched_calls, lr_in_epoch,
    \* ModelRegistry: the registered names in registration order, the last
    \* operation, the argument and the outcome of the last get_model_names call
    reg_names, reg_op, reg_arg, reg_out,
    \* the keys of optims and scheds in order, the object stored under each
    \* name in models, optims and scheds, and model_names_to_freeze
    reg_optim_names, reg_sched_names, reg_model_of, reg_optim_of, reg_sched_of,
    reg_names_to_freeze,
    \* one save_model call, statement by statement: position, registered
    \* names, index of the current name, remaining statements for it, the
    \* arguments, the checkpoints written by this call, the latest link, the
    \* latest link at the start of the call, and whether a link was ever made
    sv_pc, sv_names, sv_i, sv_steps, sv_ep, sv_best, sv_written, sv_latest,
    sv_latest0, sv_linked,
    \* load_tracks: the lines of the tracks file (each the ids written on it),
    \* the gallery size, the position of the call and its outcome
    trk_file, trk_gallery_size, trk_pc, trk_out

selVars == <<best_metric, iter_to_wait, lr_prev_best_metric, lr_of_previous_iter,
             lb_lr, train_patience, should_exit, is_candidate_for_best,
             ncalls, call_top1, call_lr, lr_changed, same_seq, inc_raw, inc_rnd,
             noncand_run, bucket_max, prev_best>>
ivVars == <<iv_interval, iv_epoch, iv_called, iv_result>>
testVars == <<test_datasets, model_kinds, t_pc, t_di, t_mi, t_cur, t_top, t_ret>>
cfgVars == <<cfg, model_names, model_names_to_freeze>>
histVars == <<nfinal, final_top1, sched_steps, nperiodic, early_stopped, sel_epochs,
              nsaves, write_failed>>
trainHist == <<epoch_steps, sched_calls, lr_in_epoch>>
runVars == <<cfgVars, models, cur_lr, epoch, start_epoch, max_epoch, fixbase_epoch,
             batch_idx, pc, next_epoch, batch_next, stop, processed, fb_started,
             epochs_started, stop_in_call, ntests, checkpoints, latest, result, err,
             histVars, trainHist>>
\* everything one call of the selector assigns
selCallVars == <<best_metric, iter_to_wait, lr_prev_best_metric, should_exit,
                 is_candidate_for_best, ncalls, call_top1, call_lr, lr_changed,
                 same_seq, inc_raw, inc_rnd, noncand_run, bucket_max, prev_best>>
regVars == <<reg_names, reg_op, reg_arg, reg_out, reg_optim_names, reg_sched_names,
            reg_model_of, reg_optim_of, reg_sched_of, reg_names_to_freeze>>
svVars == <<sv_pc, sv_names, sv_i, sv_steps, sv_ep, sv_best, sv_written, sv_latest,
           sv_latest0, sv_linked>>
trkVars == <<trk_file, trk_gallery_size, trk_pc, trk_out>>
vars == <<selVars, ivVars, testVars, runVars, regVars, svVars, trkVars>>

\* ========================================================================
\* EpochIntervalPolicy
\* ========================================================================
EpochIntervalToValue(f, l, vi, vo) ==
    [first |-> f, last |-> l, value_inside |-> vi, value_outside |-> vo]

Intervals ==
    {EpochIntervalToValue(f, l, vi, vo) :
        f \in {None} \cup (0 .. MaxEpoch), l \in {None} \cup (0 .. MaxEpoch),
        vi \in BOOLEAN, vo \in BOOLEAN}

Returned(v) == [raised |-> FALSE, value |-> v]
RuntimeError == [raised |-> TRUE, value |-> FALSE]

BeforeFirst_Mutant(epoch_interval, ep) ==
    epoch_interval.first # None /\ ep <= epoch_interval.first

BeforeFirst(epoch_interval, ep) ==
    epoch_interval.first # None /\ ep < epoch_interval.first

AfterLast(epoch_interval, ep) ==
    epoch_interval.last # None /\ ep > epoch_interval.last

_get_cur_action_from_epoch_interval(epoch_interval, ep) ==
    IF epoch_interval.first = None /\ epoch_interval.last = None
    THEN RuntimeError
    ELSE IF BeforeFirst(epoch_interval, ep)
         THEN Returned(epoch_interval.value_outside)
         ELSE IF AfterLast(epoch_interval, ep)
              THEN Returned(epoch_interval.value_outside)
              ELSE Returned(epoch_interval.value_inside)

IvIdle ==
    /\ iv_interval = EpochIntervalToValue(None, None, FALSE, FALSE)
    /\ iv_epoch = 0
    /\ iv_called = FALSE
    /\ iv_result = Returned(FALSE)

IvInit ==
    /\ iv_interval \in Intervals
    /\ iv_epoch \in 0 .. MaxEpoch
    /\ iv_called = FALSE
    /\ iv_result = Returned(FALSE)

\* one evaluation of the policy for the current epoch
IvEvaluate ==
    /\ ~iv_called
    /\ iv_called' = TRUE
    /\ iv_result' = _get_cur_action_from_epoch_interval(iv_interval, iv_epoch)
    /\ UNCHANGED <<iv_interval, iv_epoch>>

\* the caller moves on to the next epoch and evaluates the policy again
IvNextEpoch ==
    /\ iv_called
    /\ ~iv_result.raised
    /\ iv_epoch < MaxEpoch
    /\ iv_epoch' = iv_epoch + 1
    /\ iv_called' = FALSE
    /\ UNCHANGED <<iv_interval, iv_result>>

\* ========================================================================
\* CheckpointSelector: Engine.exit_on_plateau_and_choose_best
\* ========================================================================
Round4_Truncate(x) == 10 * (x \div 10)

\* np.round(top1, 4): nearest multiple of 1e-4, ties to the even multiple
Round4(x) ==
    LET q == x \div 10
        r == x % 10
    IN  IF r < 5 THEN 10 * q
        ELSE IF r > 5 THEN 10 * (q + 1)
        ELSE IF q % 2 = 0 THEN 10 * q ELSE 10 * (q + 1)

\* a top-1 value rounded to 4 decimals, as the properties below state it
RoundedTo4Decimals(x) == ((x + 5) \div 10) * 10 - (IF x % 20 = 5 THEN 10 ELSE 0)

IsNotBest_IgnoreLR(last_lr, current_metric) ==
    best_metric >= current_metric

IsNotBest_Reversed(last_lr, current_metric) ==
    lr_prev_best_metric = last_lr /\ best_metric <= current_metric

\* engine.py 241: same LR bucket and no improvement
IsNotBest(last_lr, current_metric) ==
    lr_prev_best_metric = last_lr /\ best_metric >= current_metric

PlateauExit_OffByOne(last_lr, itw) ==
    (last_lr # None) /\ (last_lr <= lb_lr) /\ (itw > train_patience)

PlateauExit_NoFloor(last_lr, itw) ==
    (last_lr # None) /\ (itw >= train_patience)

\* engine.py 245: LR at the floor and patience used up
PlateauExit(last_lr, itw) ==
    (last_lr # None) /\ (last_lr <= lb_lr) /\ (itw >= train_patience)

exit_on_plateau_and_choose_best(top1) ==
    LET last_lr == lr_of_previous_iter
        current_metric == Round4(top1)
    IN  /\ IF IsNotBest(last_lr, current_metric)
           THEN /\ iter_to_wait' = iter_to_wait + 1
                /\ should_exit' = PlateauExit(last_lr, iter_to_wait + 1)
                /\ is_candidate_for_best' = FALSE
                /\ UNCHANGED <<best_metric, lr_prev_best_metric>>
           ELSE /\ best_metric' = current_metric
                /\ iter_to_wait' = 0
                /\ lr_prev_best_metric' = last_lr
                /\ is_candidate_for_best' = TRUE
                /\ should_exit' = FALSE
        \* history of the calls
        /\ ncalls' = ncalls + 1
        /\ call_top1' = top1
        /\ call_lr' = last_lr
        /\ lr_changed' = (ncalls >= 1 /\ last_lr # call_lr)
        /\ same_seq' = (ncalls = 0 \/ (same_seq /\ top1 = call_top1 /\ last_lr = call_lr))
        /\ inc_raw' = IF ncalls = 0 THEN last_lr # None
                      ELSE inc_raw /\ top1 > call_top1 /\ last_lr = call_lr
        /\ inc_rnd' = IF ncalls = 0 THEN last_lr # None
                      ELSE /\ inc_rnd
                           /\ RoundedTo4Decimals(top1) > RoundedTo4Decimals(call_top1)
                           /\ last_lr = call_lr
        /\ noncand_run' = IF is_candidate_for_best' THEN 0 ELSE noncand_run + 1
        /\ bucket_max' = IF ncalls = 0 \/ last_lr # call_lr \/
                             RoundedTo4Decimals(top1) > bucket_max
                          THEN RoundedTo4Decimals(top1)
                          ELSE bucket_max
        /\ prev_best' = best_metric

\* Engine.__init__ 69-93: the selector of a freshly constructed engine
SelFresh ==
    /\ best_metric = 0
    /\ iter_to_wait = 0
    /\ lr_prev_best_metric = None
    /\ lr_of_previous_iter = None
    /\ should_exit = FALSE
    /\ is_candidate_for_best = FALSE
    /\ ncalls = 0
    /\ call_top1 = 0
    /\ call_lr = None
    /\ lr_changed = FALSE
    /\ same_seq = FALSE
    /\ inc_raw = FALSE
    /\ inc_rnd = FALSE
    /\ noncand_run = 0
    /\ bucket_max = 0
    /\ prev_best = 0

SelIdle == SelFresh /\ lb_lr = 1 /\ train_patience = 10

SelInit ==
    /\ SelFresh
    /\ lb_lr \in LRValues
    /\ train_patience \in 0 .. MaxPatience

\* a caller evaluates and consults the selector
SelCall ==
    /\ ncalls < MaxCalls
    /\ \E top1 \in Top1Values : exit_on_plateau_and_choose_best(top1)
    /\ UNCHANGED <<lr_of_previous_iter, lb_lr, train_patience>>

\* Engine.train 509: a training batch records the LR in effect
SelTrainBatch ==
    /\ ncalls < MaxCalls
    /\ \E lr \in LRValues : lr_of_previous_iter' = lr
    /\ UNCHANGED <<best_metric, iter_to_wait, lr_prev_best_metric, lb_lr, train_patience,
                   should_exit, is_candidate_for_best,
                   ncalls, call_top1, call_lr, lr_changed, same_seq, inc_raw, inc_rnd,
                   noncand_run, bucket_max, prev_best>>

\* ========================================================================
\* EvaluationDispatcher: Engine.test
\* ========================================================================
\* a metric tuple is identified by the (model, dataset) an evaluator computed it for
Produced(model_id, dataset_id) == [model |-> model_id, dataset |-> dataset_id]
NoResult == [model |-> None, dataset |-> None]

\* engine.py 554-590: one (dataset, model) iteration; returns the new cur_* tuple
Evaluate(kind, dataset_name, dataset_id, model_id, cur) ==
    IF kind = "classification" THEN Produced(model_id, dataset_id)
    ELSE IF kind = "contrastive" THEN cur
    ELSE IF dataset_name = "lfw" THEN cur
    ELSE Produced(model_id, dataset_id)

TakeMain_Mutant(model_id, cur, top) == cur

\* engine.py 592-596: only the iteration of the first model assigns top1/top5/mAP
TakeMain(model_id, cur, top) == IF model_id = 0 THEN cur ELSE top

TestIdle ==
    /\ test_datasets = <<>>
    /\ model_kinds = <<>>
    /\ t_pc = "idle"
    /\ t_di = 0
    /\ t_mi = 0
    /\ t_cur = NoResult
    /\ t_top = NoResult
    /\ t_ret = NoResult

TestInit ==
    /\ test_datasets \in KeySeqs(DatasetNames, 0, MaxDatasets)
    /\ model_kinds \in SeqsUpTo(Kinds, 1, MaxModels)
    /\ t_pc = "idle"
    /\ t_di = 0
    /\ t_mi = 0
    /\ t_cur = NoResult
    /\ t_top = NoResult
    /\ t_ret = NoResult

\* engine.py 545-548: entry of test(); indices are 0-based as in the code
TestStart ==
    /\ t_pc = "idle"
    /\ t_pc' = "loop"
    /\ t_di' = 0
    /\ t_mi' = 0
    /\ t_cur' = NoResult
    /\ t_top' = NoResult
    /\ UNCHANGED <<test_datasets, model_kinds, t_ret>>

\* engine.py 549-596: one iteration of the nested loops
TestIterate ==
    /\ t_pc = "loop"
    /\ t_di < Len(test_datasets)
    /\ LET cur == Evaluate(model_kinds[t_mi + 1], test_datasets[t_di + 1], t_di, t_mi, t_cur)
       IN  /\ t_cur' = cur
           /\ t_top' = TakeMain(t_mi, cur, t_top)
    /\ IF t_mi + 1 < Len(model_kinds)
       THEN t_mi' = t_mi + 1 /\ t_di' = t_di
       ELSE t_mi' = 0 /\ t_di' = t_di + 1
    /\ UNCHANGED <<test_datasets, model_kinds, t_pc, t_ret>>

\* engine.py 597
TestReturn ==
    /\ t_pc = "loop"
    /\ t_di >= Len(test_datasets)
    /\ t_pc' = "returned"
    /\ t_ret' = t_top
    /\ UNCHANGED <<test_datasets, model_kinds, t_di, t_mi, t_cur, t_top>>

\* ========================================================================
\* Engine construction, ModelRegistry and model objects
\* ========================================================================
ModelName(model_id) == "model_" \o ToString(model_id)

InSeq(x, q) == \E i \in DOMAIN q : q[i] = x
SeqRange(q) == {q[k] : k \in DOMAIN q}

\* engine.py 95-112: the names __init__ registers, in registration order
RegisteredNames(is_list, num_models) ==
    IF is_list THEN [i \in 1 .. num_models |-> ModelName(i - 1)] ELSE <<"model">>

FreezeEligible_Mutant(should_freeze, model_id) == should_freeze /\ model_id >= 0

\* engine.py 106
FreezeEligible(should_freeze, model_id) == should_freeze /\ model_id > 0

RECURSIVE NamesToFreezeFrom(_, _, _)
NamesToFreezeFrom(model_id, num_models, should_freeze) ==
    IF model_id >= num_models THEN <<>>
    ELSE (IF FreezeEligible(should_freeze, model_id) THEN <<ModelName(model_id)>> ELSE <<>>)
         \o NamesToFreezeFrom(model_id + 1, num_models, should_freeze)

\* engine.py 91, 103-112: model_names_to_freeze after construction
NamesToFreeze(is_list, num_models, should_freeze) ==
    IF is_list THEN NamesToFreezeFrom(0, num_models, should_freeze) ELSE <<>>

\* ---- ModelRegistry: register_model / get_model_names --------------------
\* the names a caller may register or request
RegistryNames == {"model"} \cup {ModelName(i) : i \in 0 .. MaxModels - 1}

\* the `names` argument: None, one name (a str) or a list of names
NoNames == [kind |-> "none", names |-> <<>>]
RegistryArgs ==
    {NoNames}
        \cup {[kind |-> "str", names |-> <<n>>] : n \in RegistryNames}
        \cup {[kind |-> "list", names |-> q] : q \in SeqsUpTo(RegistryNames, 0, MaxRequest)}

AssertionFailed == [raised |-> TRUE, value |-> <<>>]

register_model_MoveToEnd(names_real, name) ==
    Append(SelectSeq(names_real, LAMBDA n : n # name), name)

\* engine.py 148-150: a new key goes to the end of the OrderedDict, an existing
\* key keeps its place
register_model(names_real, name) ==
    IF InSeq(name, names_real) THEN names_real ELSE Append(names_real, name)

\* the objects a caller may pass; the constructor's own are numbered 0
Objects == {0, 1}

\* engine.py 148-150: the value stored under a key of a dict
SetItem(of, name, obj) ==
    [n \in DOMAIN of \cup {name} |-> IF n = name THEN obj ELSE of[n]]

AllRegistered_Some(names, names_real) ==
    \E i \in DOMAIN names : InSeq(names[i], names_real)

\* engine.py 157-158
AllRegistered(names, names_real) ==
    \A i \in DOMAIN names : InSeq(names[i], names_real)

\* engine.py 152-161; a str argument has been wrapped into a one-element list
get_model_names(names_real, arg) ==
    IF arg.kind # "none"
    THEN IF AllRegistered(arg.names, names_real)
         THEN Returned(arg.names)
         ELSE AssertionFailed
    ELSE Returned(names_real)

\* engine.py 81-83: the empty registry of a constructor that registers nothing
RegIdle ==
    /\ reg_names = <<>>
    /\ reg_op = "none"
    /\ reg_arg = NoNames
    /\ reg_out = Returned(<<>>)
    /\ reg_optim_names = <<>>
    /\ reg_sched_names = <<>>
    /\ reg_model_of = <<>>
    /\ reg_optim_of = <<>>
    /\ reg_sched_of = <<>>
    /\ reg_names_to_freeze = <<>>

\* engine.py 81-112: the registry a constructor leaves behind, for a list of
\* up to MaxModels models or for a single model
RegInit ==
    /\ \E is_list \in BOOLEAN, num_models \in 0 .. MaxModels, should_freeze \in BOOLEAN :
          LET names == RegisteredNames(is_list, num_models)
              of == [n \in SeqRange(names) |-> 0]
          IN  /\ reg_names = names
              /\ reg_optim_names = names
              /\ reg_sched_names = names
              /\ reg_model_of = of
              /\ reg_optim_of = of
              /\ reg_sched_of = of
              /\ reg_names_to_freeze = NamesToFreeze(is_list, num_models, should_freeze)
    /\ reg_op = "none"
    /\ reg_arg = NoNames
    /\ reg_out = Returned(<<>>)

\* engine.py 132-150; the three dicts exist once the constructor has run, so
\* none of the AttributeError branches is taken. The registry is kept to at
\* most MaxModels names; the argument and outcome of an earlier
\* get_model_names call are forgotten.
RegRegister ==
    /\ \E name \in RegistryNames, obj \in Objects :
          /\ InSeq(name, reg_names) \/ Len(reg_names) < MaxModels
          /\ reg_names' = register_model(reg_names, name)
          /\ reg_optim_names' = register_model(reg_optim_names, name)
          /\ reg_sched_names' = register_model(reg_sched_names, name)
          /\ reg_model_of' = SetItem(reg_model_of, name, obj)
          /\ reg_optim_of' = SetItem(reg_optim_of, name, obj)
          /\ reg_sched_of' = SetItem(reg_sched_of, name, obj)
    /\ reg_op' = "register"
    /\ reg_arg' = NoNames
    /\ reg_out' = Returned(<<>>)
    /\ UNCHANGED reg_names_to_freeze

\* engine.py 152-161
RegGetNames ==
    /\ \E arg \in RegistryArgs :
          /\ reg_arg' = arg
          /\ reg_out' = get_model_names(reg_names, arg)
    /\ reg_op' = "get"
    /\ UNCHANGED <<reg_names, reg_optim_names, reg_sched_names, reg_model_of,
                   reg_optim_of, reg_sched_of, reg_names_to_freeze>>

\* a model object: its train/eval mode and the set of its trainable layers
NewModel == [mode |-> "train", trainable |-> Layers]

\* torchreid.utils.open_all_layers / open_specified_layers
open_all_layers(model) == [model EXCEPT !.trainable = Layers]
open_specified_layers(model, open_layers) == [model EXCEPT !.trainable = open_layers \cap Layers]

set_model_mode_AlwaysTrain(ms, m) ==
    [name \in DOMAIN ms |-> [ms[name] EXCEPT !.mode = "train"]]

\* engine.py 189-197
set_model_mode(ms, m) ==
    [name \in DOMAIN ms |-> [ms[name] EXCEPT !.mode = IF m = "train" THEN "train" ELSE "eval"]]

\* engine.py 425-429
_freeze_aux_models(ms) ==
    [name \in DOMAIN ms |->
        IF InSeq(name, model_names_to_freeze)
        THEN open_specified_layers([ms[name] EXCEPT !.mode = "eval"], {})
        ELSE ms[name]]

\* engine.py 431-435
_unfreeze_aux_models(ms) ==
    [name \in DOMAIN ms |->
        IF InSeq(name, model_names_to_freeze)
        THEN open_all_layers([ms[name] EXCEPT !.mode = "train"])
        ELSE ms[name]]

two_stepped_transfer_learning_NoReopen(ms, ep, fixbase, open_layers) ==
    IF (ep + 1) <= fixbase /\ open_layers # <<>>
    THEN [name \in DOMAIN ms |-> open_specified_layers(ms[name], open_layers[1])]
    ELSE ms

\* engine.py 776-792; open_layers is <<>> for None, <<L>> for the list L
two_stepped_transfer_learning(ms, ep, fixbase, open_layers) ==
    IF (ep + 1) <= fixbase /\ open_layers # <<>>
    THEN [name \in DOMAIN ms |-> open_specified_layers(ms[name], open_layers[1])]
    ELSE [name \in DOMAIN ms |-> open_all_layers(ms[name])]

\* engine.py 114-122; the interval is <<>> for None, <<interval>> otherwise
_should_freeze_aux_models(ep) ==
    IF ~cfg.should_freeze_aux_models THEN Returned(FALSE)
    ELSE IF cfg.epoch_interval_for_aux_model_freeze = <<>> THEN Returned(TRUE)
    ELSE _get_cur_action_from_epoch_interval(cfg.epoch_interval_for_aux_model_freeze[1], ep)

TrainPrelude_UnfreezeLast(ms, ep) ==
    LET flag == _should_freeze_aux_models(ep).value
        m0 == set_model_mode(ms, "train")
        m1 == two_stepped_transfer_learning(m0, ep, cfg.fixbase_epoch, cfg.open_layers)
    IN  IF flag THEN _freeze_aux_models(m1) ELSE _unfreeze_aux_models(m1)

TrainSteps_FreezeFirst(flag) ==
    IF flag
    THEN <<"set_model_mode", "_freeze_aux_models", "two_stepped_transfer_learning">>
    ELSE <<"set_model_mode", "_unfreeze_aux_models", "two_stepped_transfer_learning">>

\* engine.py 444-457: the calls train() makes before the batch loop, in order,
\* in an epoch flagged for freezing (flag) and in one that is not
TrainSteps(flag) ==
    IF flag
    THEN <<"set_model_mode", "two_stepped_transfer_learning", "_freeze_aux_models">>
    ELSE <<"set_model_mode", "_unfreeze_aux_models", "two_stepped_transfer_learning">>

\* the effect of one of these calls on the model objects
ApplyStep(step, ms, ep) ==
    CASE step = "set_model_mode" -> set_model_mode(ms, "train")
      [] step = "_unfreeze_aux_models" -> _unfreeze_aux_models(ms)
      [] step = "_freeze_aux_models" -> _freeze_aux_models(ms)
      [] step = "two_stepped_transfer_learning" ->
            two_stepped_transfer_learning(ms, ep, cfg.fixbase_epoch, cfg.open_layers)

RECURSIVE ApplySteps(_, _, _)
ApplySteps(steps, ms, ep) ==
    IF steps = <<>> THEN ms
    ELSE ApplySteps(Tail(steps), ApplyStep(Head(steps), ms, ep), ep)

\* engine.py 444-457: mode, unfreeze, layer policy, freeze - in this order
TrainPrelude(ms, ep) ==
    ApplySteps(TrainSteps(_should_freeze_aux_models(ep).value), ms, ep)

\* engine.py 209: the schedulers stepped with the average training loss
MetricSchedulers == {"ReduceLROnPlateau", "WarmupScheduler"}

\* the scheduler of a model: "None" for no scheduler, its class name otherwise
SchedKinds == {"None", "StepLR"} \cup MetricSchedulers

\* engine.py 204-212: the step calls of update_lr for the names from position i
\* on, in registration order
RECURSIVE update_lr_from(_, _, _)
update_lr_from(i, names, scheds) ==
    IF i > Len(names) THEN <<>>
    ELSE (IF scheds[i] # "None"
          THEN <<[name |-> names[i], metrics |-> (scheds[i] \in MetricSchedulers)]>>
          ELSE <<>>)
         \o update_lr_from(i + 1, names, scheds)

\* engine.py 204-212
update_lr(names, scheds) == update_lr_from(1, names, scheds)

get_current_lr_Unset == None

\* engine.py 199-202: the LR of the first registered model's optimizer
get_current_lr == cur_lr

\* ========================================================================
\* Engine.test as run() calls it
\* ========================================================================
RECURSIVE TestLoop(_, _, _, _)
TestLoop(di, mi, cur, top) ==
    IF di >= Len(test_datasets) THEN top
    ELSE LET c == Evaluate(model_kinds[mi + 1], test_datasets[di + 1], di, mi, cur)
             t == TakeMain(mi, c, top)
         IN  IF mi + 1 < Len(model_kinds)
             THEN TestLoop(di, mi + 1, c, t)
             ELSE TestLoop(di + 1, 0, c, t)

\* engine.py 545-597: whose tuple test() returns
TestReturnValue == TestLoop(0, 0, NoResult, NoResult)

\* the top-1 values an evaluation may report
RunTop1Values == {t \in Top1Values : t % 10 = 0}
TestTop1 == IF TestReturnValue = NoResult THEN {None} ELSE RunTop1Values

\* ========================================================================
\* PersistenceManager: Engine.save_model
\* ========================================================================
Checkpoint_SameEpoch(name, ep, is_best) ==
    [name |-> name, epoch |-> ep, is_best |-> is_best,
     complete |-> (processed = cfg.num_batches)]

\* engine.py 168-181: the checkpoint written for one model; `complete` records
\* whether every batch of the epoch went through the training step
Checkpoint(name, ep, is_best) ==
    [name |-> name, epoch |-> ep + 1, is_best |-> is_best,
     complete |-> (processed = cfg.num_batches)]

LatestAfter_EveryModel(name, main_model_name, ckpt, lat) ==
    (IF lat # <<>> THEN <<>> ELSE lat) \o <<ckpt>>

\* engine.py 183-187: for the main model an existing latest link is removed and
\* a link to the checkpoint just written is created
LatestAfter(name, main_model_name, ckpt, lat) ==
    IF name = main_model_name
    THEN (IF lat # <<>> THEN <<>> ELSE lat) \o <<ckpt>>
    ELSE lat

\* outcomes of the writes of one save_model call: 0 = every write succeeds,
\* i = save_checkpoint raises for the i-th registered model
SaveFailures == 0 .. Len(model_names)

\* engine.py 167-187: the loop over the registered names from position i on
RECURSIVE SaveFrom(_, _, _, _, _, _)
SaveFrom(i, ep, is_best, fail_at, cks, lat) ==
    IF i > Len(model_names)
    THEN [checkpoints |-> cks, latest |-> lat, failed |-> FALSE]
    ELSE IF i = fail_at
    THEN [checkpoints |-> cks, latest |-> lat, failed |-> TRUE]
    ELSE SaveFrom(i + 1, ep, is_best, fail_at,
                  Append(cks, Checkpoint(model_names[i], ep, is_best)),
                  LatestAfter(model_names[i], model_names[1],
                              Checkpoint(model_names[i], ep, is_best), lat))

\* engine.py 163-187
save_model(ep, is_best, fail_at) == SaveFrom(1, ep, is_best, fail_at, checkpoints, latest)

SaveRaises_Swallowed(s) == FALSE

\* engine.py 389-390 and 408-410: nothing catches an exception of save_model
SaveRaises(s) == s.failed

\* ---- save_model statement by statement ----------------------------------
\* the registries a constructor can leave behind (engine.py 95-112)
SaveRegistries ==
    {<<"model">>} \cup {[i \in 1 .. n |-> ModelName(i - 1)] : n \in 1 .. MaxModels}

SaveSteps_RemoveFirst(name, main_model_name) ==
    IF name = main_model_name
    THEN <<"lexists", "remove", "save_checkpoint", "symlink">>
    ELSE <<"save_checkpoint">>

\* engine.py 167-187: the statements of one iteration of the loop over names
SaveSteps(name, main_model_name) ==
    IF name = main_model_name
    THEN <<"save_checkpoint", "lexists", "remove", "symlink">>
    ELSE <<"save_checkpoint">>

\* engine.py 167: the loop moves to the next name, or the call returns
SvAdvance(rest) ==
    IF rest # <<>>
    THEN /\ sv_steps' = rest
         /\ UNCHANGED <<sv_pc, sv_i>>
    ELSE IF sv_i < Len(sv_names)
    THEN /\ sv_i' = sv_i + 1
         /\ sv_steps' = SaveSteps(sv_names[sv_i + 1], sv_names[1])
         /\ UNCHANGED sv_pc
    ELSE /\ sv_pc' = "idle"
         /\ sv_steps' = <<>>
         /\ UNCHANGED sv_i

\* before the first save_model call nothing is written and no link exists
SvIdle ==
    /\ sv_pc = "idle"
    /\ sv_names = <<>>
    /\ sv_i = 0
    /\ sv_steps = <<>>
    /\ sv_ep = 0
    /\ sv_best = FALSE
    /\ sv_written = <<>>
    /\ sv_latest = <<>>
    /\ sv_latest0 = <<>>
    /\ sv_linked = FALSE

SvInit ==
    /\ sv_pc = "idle"
    /\ sv_names \in SaveRegistries
    /\ sv_i = 0
    /\ sv_steps = <<>>
    /\ sv_ep = 0
    /\ sv_best = FALSE
    /\ sv_written = <<>>
    /\ sv_latest = <<>>
    /\ sv_latest0 = <<>>
    /\ sv_linked = FALSE

\* engine.py 163-165: save_model(epoch, save_dir, is_best) is entered; an
\* earlier call has returned or raised
SvCall ==
    /\ sv_pc \in {"idle", "raised"}
    /\ sv_pc' = "running"
    /\ sv_ep' \in 0 .. MaxEpoch - 1
    /\ sv_best' \in BOOLEAN
    /\ sv_i' = 1
    /\ sv_steps' = SaveSteps(sv_names[1], sv_names[1])
    /\ sv_written' = <<>>
    /\ sv_latest0' = sv_latest
    /\ UNCHANGED <<sv_names, sv_latest, sv_linked>>

\* engine.py 168-181: save_checkpoint returns the path of the written file
SvWrite ==
    /\ sv_pc = "running"
    /\ Head(sv_steps) = "save_checkpoint"
    /\ sv_written' = Append(sv_written, Checkpoint(sv_names[sv_i], sv_ep, sv_best))
    /\ SvAdvance(Tail(sv_steps))
    /\ UNCHANGED <<sv_names, sv_ep, sv_best, sv_latest, sv_latest0, sv_linked>>

\* engine.py 168-181: save_checkpoint raises and nothing catches it
SvWriteFails ==
    /\ sv_pc = "running"
    /\ Head(sv_steps) = "save_checkpoint"
    /\ sv_pc' = "raised"
    /\ UNCHANGED <<sv_names, sv_i, sv_steps, sv_ep, sv_best, sv_written, sv_latest,
                   sv_latest0, sv_linked>>

\* engine.py 185: os.path.lexists(latest_name) decides whether remove runs
SvLexists ==
    /\ sv_pc = "running"
    /\ Head(sv_steps) = "lexists"
    /\ IF sv_latest # <<>>
       THEN SvAdvance(Tail(sv_steps))
       ELSE SvAdvance(Tail(Tail(sv_steps)))
    /\ UNCHANGED <<sv_names, sv_ep, sv_best, sv_written, sv_latest, sv_latest0,
                   sv_linked>>

\* engine.py 186: os.remove(latest_name)
SvRemove ==
    /\ sv_pc = "running"
    /\ Head(sv_steps) = "remove"
    /\ sv_latest' = <<>>
    /\ SvAdvance(Tail(sv_steps))
    /\ UNCHANGED <<sv_names, sv_ep, sv_best, sv_written, sv_latest0, sv_linked>>

\* engine.py 187: os.symlink(ckpt_path, latest_name)
SvSymlink ==
    /\ sv_pc = "running"
    /\ Head(sv_steps) = "symlink"
    /\ sv_latest' = <<sv_written[Len(sv_written)]>>
    /\ sv_linked' = TRUE
    /\ SvAdvance(Tail(sv_steps))
    /\ UNCHANGED <<sv_names, sv_ep, sv_best, sv_written, sv_latest0>>

\* ========================================================================
\* Engine.run / Engine.train
\* ========================================================================
loopVars == <<epoch, next_epoch, batch_idx, batch_next, processed>>
argVars == <<start_epoch, max_epoch, fixbase_epoch>>
outVars == <<checkpoints, latest, result, err>>
countVars == <<fb_started, epochs_started, ntests>>

NoReturn == [kind |-> "none", top1 |-> None]
ReturnScalar(v) == [kind |-> "scalar", top1 |-> v]
ReturnTuple(v) == [kind |-> "tuple", top1 |-> v]

\* engine.py 510: the poll after a batch
BatchStopCheck == cfg.stop_callback /\ stop

EpochStopCheck_Never == FALSE

\* engine.py 361: the poll after an epoch
EpochStopCheck == cfg.stop_callback /\ stop

ShouldBreak_IgnoresFlag(exit) == exit

\* engine.py 387, 392: the selector ends the loop only with early stopping enabled
ShouldBreak(exit) == cfg.early_stoping /\ exit

PeriodicEvalDue_IgnoresLast ==
    /\ (epoch + 1) >= cfg.start_eval
    /\ cfg.eval_freq > 0
    /\ (epoch + 1) % cfg.eval_freq = 0

\* engine.py 365-368
PeriodicEvalDue ==
    /\ (epoch + 1) >= cfg.start_eval
    /\ cfg.eval_freq > 0
    /\ (epoch + 1) % cfg.eval_freq = 0
    /\ (epoch + 1) # max_epoch

TestOnly_Ignored == FALSE

\* engine.py 314
TestOnly == cfg.test_only

PreTest_Always == TRUE

\* engine.py 328: the evaluation before training is skipped in search mode
PreTest == ~cfg.lr_finder

\* engine.py 311-350: entry of run() up to the epoch loop
RunEnter ==
    /\ pc = "idle"
    /\ IF cfg.visrank /\ ~cfg.test_only
       THEN /\ pc' = "raised"
            /\ err' = "ValueError"
            /\ UNCHANGED <<models, ntests, result, argVars, next_epoch>>
       ELSE IF TestOnly
       THEN /\ \E top1 \in TestTop1 : result' = ReturnTuple(top1)
            /\ models' = set_model_mode(models, "eval")
            /\ ntests' = ntests + 1
            /\ pc' = "returned"
            /\ UNCHANGED <<err, argVars, next_epoch>>
       ELSE /\ IF PreTest
               THEN models' = set_model_mode(models, "eval") /\ ntests' = ntests + 1
               ELSE UNCHANGED <<models, ntests>>
            /\ start_epoch' = cfg.start_epoch
            /\ max_epoch' = cfg.max_epoch
            /\ fixbase_epoch' = cfg.fixbase_epoch
            /\ next_epoch' = cfg.start_epoch
            /\ pc' = "loop"
            /\ UNCHANGED <<err, result>>
    /\ UNCHANGED <<cur_lr, epoch, batch_idx, batch_next, processed, stop, stop_in_call,
                   fb_started, epochs_started, checkpoints, latest,
                   lr_of_previous_iter, selCallVars, histVars>>
    /\ UNCHANGED trainHist

\* engine.py 351-353 and 439-459: the loop takes the next epoch and train() applies
\* the mode, the layer policy and the freeze decision
TrainBegin ==
    /\ pc = "loop"
    /\ next_epoch < max_epoch
    /\ epoch' = next_epoch
    /\ next_epoch' = next_epoch + 1
    /\ epochs_started' = epochs_started + 1
    /\ batch_next' = 0
    /\ processed' = 0
    /\ IF _should_freeze_aux_models(next_epoch).raised
       THEN /\ models' = set_model_mode(models, "train")
            /\ epoch_steps' = <<"set_model_mode">>
            /\ pc' = "raised"
            /\ err' = "RuntimeError"
       ELSE /\ models' = TrainPrelude(models, next_epoch)
            /\ epoch_steps' = TrainSteps(_should_freeze_aux_models(next_epoch).value)
            /\ pc' = "batches"
            /\ UNCHANGED err
    /\ UNCHANGED <<sched_calls, lr_in_epoch>>
    /\ UNCHANGED <<cur_lr, batch_idx, stop, stop_in_call, fb_started, ntests,
                   checkpoints, latest, result, argVars, lr_of_previous_iter, selCallVars,
                   histVars>>

\* engine.py 351: range(start_epoch, max_epoch) is exhausted
LoopExhausted ==
    /\ pc = "loop"
    /\ next_epoch >= max_epoch
    /\ pc' = "final"
    /\ UNCHANGED <<models, cur_lr, loopVars, argVars, outVars, countVars, stop,
                   stop_in_call, lr_of_previous_iter, selCallVars, histVars>>
    /\ UNCHANGED trainHist

\* engine.py 461-466: the loader yields a batch and forward_backward starts
BatchStart ==
    /\ pc = "batches"
    /\ batch_next < cfg.num_batches
    /\ batch_idx' = batch_next
    /\ fb_started' = fb_started + 1
    /\ stop_in_call' = (stop_in_call \/ stop)
    /\ epoch_steps' = Append(epoch_steps, "forward_backward")
    /\ pc' = "forward_backward"
    /\ UNCHANGED <<sched_calls, lr_in_epoch>>
    /\ UNCHANGED <<models, cur_lr, epoch, next_epoch, batch_next, processed, argVars,
                   outVars, epochs_started, ntests, stop, lr_of_previous_iter, selCallVars,
                   histVars>>

\* engine.py 466-511: forward_backward returns, the LR in effect is recorded and
\* the stop signal is polled
ForwardBackwardDone ==
    /\ pc = "forward_backward"
    /\ processed' = processed + 1
    /\ lr_of_previous_iter' = get_current_lr
    /\ IF BatchStopCheck
       THEN pc' = "update_lr" /\ UNCHANGED batch_next
       ELSE pc' = "batches" /\ batch_next' = batch_next + 1
    /\ UNCHANGED <<models, cur_lr, epoch, next_epoch, batch_idx, argVars, outVars,
                   countVars, stop, stop_in_call, selCallVars, histVars>>
    /\ UNCHANGED trainHist

\* engine.py 461: the loader is exhausted
BatchesExhausted ==
    /\ pc = "batches"
    /\ batch_next >= cfg.num_batches
    /\ pc' = "update_lr"
    /\ UNCHANGED <<models, cur_lr, loopVars, argVars, outVars, countVars, stop,
                   stop_in_call, lr_of_previous_iter, selCallVars, histVars>>
    /\ UNCHANGED trainHist

\* engine.py 513-514 and 204-212: the schedulers step; the step may move the LR
TrainEnd ==
    /\ pc = "update_lr"
    /\ lr_in_epoch' = cur_lr
    /\ IF ~cfg.lr_finder
       THEN /\ sched_calls' = update_lr(model_names, cfg.scheds)
            /\ epoch_steps' = Append(epoch_steps, "update_lr")
            /\ sched_steps' = sched_steps + 1
            /\ IF cfg.scheds[1] # "None"
               THEN \E lr \in LRValues : cur_lr' = lr
               ELSE UNCHANGED cur_lr
       ELSE UNCHANGED <<cur_lr, sched_steps, sched_calls, epoch_steps>>
    /\ pc' = "epoch_poll"
    /\ UNCHANGED <<models, loopVars, argVars, outVars, countVars, stop, stop_in_call,
                   lr_of_previous_iter, selCallVars, nfinal, final_top1, nperiodic,
                   early_stopped, sel_epochs, nsaves, write_failed>>

\* engine.py 361-362: the poll after train() returned
EpochPoll ==
    /\ pc = "epoch_poll"
    /\ pc' = IF EpochStopCheck THEN "final" ELSE "eval_check"
    /\ UNCHANGED <<models, cur_lr, loopVars, argVars, outVars, countVars, stop,
                   stop_in_call, lr_of_previous_iter, selCallVars, histVars>>
    /\ UNCHANGED trainHist

\* engine.py 365-393: periodic evaluation, selector, checkpoint, early stop
PeriodicEval ==
    /\ pc = "eval_check"
    /\ PeriodicEvalDue
    /\ models' = set_model_mode(models, "eval")
    /\ ntests' = ntests + 1
    /\ nperiodic' = nperiodic + 1
    /\ \E top1 \in TestTop1 :
         IF cfg.lr_finder
         THEN /\ pc' = "loop"
              /\ UNCHANGED <<selCallVars, outVars, early_stopped, sel_epochs, nsaves,
                             write_failed>>
         ELSE IF top1 = None
         THEN /\ pc' = "raised"
              /\ err' = "TypeError"
              /\ UNCHANGED <<selCallVars, checkpoints, latest, result, early_stopped,
                             sel_epochs, nsaves, write_failed>>
         ELSE /\ exit_on_plateau_and_choose_best(top1)
              /\ sel_epochs' = Append(sel_epochs, epoch)
              /\ IF cfg.save_chkpt
                 THEN \E fail_at \in SaveFailures :
                        LET s == save_model(epoch, is_candidate_for_best', fail_at)
                        IN  /\ checkpoints' = s.checkpoints
                            /\ latest' = s.latest
                            /\ write_failed' = s.failed
                            /\ IF SaveRaises(s)
                               THEN /\ pc' = "raised"
                                    /\ err' = "OSError"
                                    /\ UNCHANGED <<nsaves, early_stopped>>
                               ELSE /\ nsaves' = nsaves + 1
                                    /\ early_stopped' = ShouldBreak(should_exit')
                                    /\ pc' = IF ShouldBreak(should_exit')
                                             THEN "final" ELSE "loop"
                                    /\ UNCHANGED err
                 ELSE /\ early_stopped' = ShouldBreak(should_exit')
                      /\ pc' = IF ShouldBreak(should_exit') THEN "final" ELSE "loop"
                      /\ UNCHANGED <<checkpoints, latest, nsaves, write_failed, err>>
              /\ UNCHANGED result
    /\ UNCHANGED <<cur_lr, loopVars, argVars, fb_started, epochs_started, stop,
                   stop_in_call, lr_of_previous_iter, nfinal, final_top1, sched_steps>>
    /\ UNCHANGED trainHist

\* engine.py 365-368: no periodic evaluation after this epoch
NoPeriodicEval ==
    /\ pc = "eval_check"
    /\ ~PeriodicEvalDue
    /\ pc' = "loop"
    /\ UNCHANGED <<models, cur_lr, loopVars, argVars, outVars, countVars, stop,
                   stop_in_call, lr_of_previous_iter, selCallVars, histVars>>
    /\ UNCHANGED trainHist

\* engine.py 395-423: final test, selector, checkpoint, return
FinalTest ==
    /\ pc = "final"
    /\ IF max_epoch > 0
       THEN /\ models' = set_model_mode(models, "eval")
            /\ ntests' = ntests + 1
            /\ nfinal' = nfinal + 1
            /\ \E top1 \in TestTop1 :
                 /\ final_top1' = top1
                 /\ IF cfg.save_chkpt /\ ~cfg.lr_finder
                    THEN IF top1 = None
                         THEN /\ pc' = "raised"
                              /\ err' = "TypeError"
                              /\ UNCHANGED <<selCallVars, checkpoints, latest, result,
                                             sel_epochs, nsaves, write_failed>>
                         ELSE /\ exit_on_plateau_and_choose_best(top1)
                              /\ sel_epochs' = Append(sel_epochs, epoch)
                              /\ IF epoch = None
                                 THEN /\ pc' = "raised"
                                      /\ err' = "TypeError"
                                      /\ UNCHANGED <<checkpoints, latest, result, nsaves,
                                                     write_failed>>
                                 ELSE \E fail_at \in SaveFailures :
                                        LET s == save_model(epoch, is_candidate_for_best',
                                                            fail_at)
                                        IN  /\ checkpoints' = s.checkpoints
                                            /\ latest' = s.latest
                                            /\ write_failed' = s.failed
                                            /\ IF SaveRaises(s)
                                               THEN /\ pc' = "raised"
                                                    /\ err' = "OSError"
                                                    /\ UNCHANGED <<result, nsaves>>
                                               ELSE /\ pc' = "returned"
                                                    /\ result' = ReturnScalar(top1)
                                                    /\ nsaves' = nsaves + 1
                                                    /\ UNCHANGED err
                    ELSE /\ pc' = "returned"
                         /\ result' = ReturnScalar(top1)
                         /\ UNCHANGED <<selCallVars, checkpoints, latest, err, sel_epochs,
                                        nsaves, write_failed>>
       ELSE /\ pc' = "raised"
            /\ err' = "UnboundLocalError"
            /\ UNCHANGED <<models, ntests, selCallVars, checkpoints, latest, result,
                           nfinal, final_top1, sel_epochs, nsaves, write_failed>>
    /\ UNCHANGED <<cur_lr, loopVars, argVars, fb_started, epochs_started, stop,
                   stop_in_call, lr_of_previous_iter, sched_steps, nperiodic,
                   early_stopped>>
    /\ UNCHANGED trainHist

\* the caller raises the stop signal; it stays raised
SetStop ==
    /\ cfg.stop_callback
    /\ ~stop
    /\ pc \notin {"returned", "raised"}
    /\ stop' = TRUE
    /\ stop_in_call' = (pc = "forward_backward")
    /\ UNCHANGED <<models, cur_lr, loopVars, argVars, pc, outVars, countVars,
                   lr_of_previous_iter, selCallVars, histVars>>
    /\ UNCHANGED trainHist

\* ---- configurations ------------------------------------------------------
DefaultCfg ==
    [kinds |-> <<"reid", "reid">>, datasets |-> <<"market1501">>, models_is_list |-> TRUE,
     should_freeze_aux_models |-> FALSE, epoch_interval_for_aux_model_freeze |-> <<>>,
     early_stoping |-> TRUE, save_chkpt |-> TRUE, train_patience |-> 1, lb_lr |-> 1,
     max_epoch |-> MaxEpoch, start_epoch |-> 0, fixbase_epoch |-> 0, open_layers |-> <<>>,
     start_eval |-> 0, eval_freq |-> 1, test_only |-> FALSE, visrank |-> FALSE,
     lr_finder |-> FALSE, stop_callback |-> FALSE, num_batches |-> 1,
     num_optimizers |-> 2, num_schedulers |-> 2, scheds |-> <<"StepLR", "StepLR">>]

FreezeIntervals == {i \in Intervals : i.value_inside # i.value_outside}

\* models, auxiliary freezing and layer policy
FreezeCfgs ==
    {[DefaultCfg EXCEPT !.kinds = [i \in 1 .. n |-> "reid"], !.models_is_list = il,
                        !.num_optimizers = n, !.num_schedulers = n,
                        !.scheds = [i \in 1 .. n |-> "StepLR"],
                        !.should_freeze_aux_models = f,
                        !.epoch_interval_for_aux_model_freeze = iv,
                        !.fixbase_epoch = fb, !.open_layers = ol, !.eval_freq = -1] :
        n \in 1 .. MaxModels, il \in BOOLEAN, f \in BOOLEAN,
        iv \in {<<>>} \cup {<<i>> : i \in FreezeIntervals},
        fb \in 0 .. 2, ol \in {<<>>, <<{}>>, <<{"classifier"}>>}}

\* epoch range and evaluation schedule
ScheduleCfgs ==
    {[DefaultCfg EXCEPT !.max_epoch = me, !.start_epoch = se, !.start_eval = sv,
                        !.eval_freq = ef, !.early_stoping = es, !.save_chkpt = sc] :
        me \in 0 .. MaxEpoch, se \in 0 .. 1, sv \in {0, 2}, ef \in {-1, 0, 1, 2},
        es \in BOOLEAN, sc \in BOOLEAN}

\* cancellation
StopCfgs ==
    {[DefaultCfg EXCEPT !.stop_callback = TRUE, !.num_batches = nb, !.max_epoch = me,
                        !.lr_finder = lf, !.save_chkpt = sc, !.eval_freq = ef] :
        nb \in 0 .. MaxBatches, me \in 0 .. MaxEpoch, lf \in BOOLEAN, sc \in BOOLEAN,
        ef \in {-1, 1}}

\* entry modes of run()
EntryCfgs ==
    {[DefaultCfg EXCEPT !.test_only = t, !.visrank = v, !.lr_finder = lf, !.max_epoch = me] :
        t \in BOOLEAN, v \in BOOLEAN, lf \in BOOLEAN, me \in 0 .. 1}

\* model kinds and test datasets
KindCfgs ==
    {[DefaultCfg EXCEPT !.kinds = k, !.datasets = d, !.max_epoch = 2,
                        !.num_optimizers = Len(k), !.num_schedulers = Len(k),
                        !.scheds = [i \in 1 .. Len(k) |-> "StepLR"]] :
        k \in SeqsUpTo(Kinds, 1, 2), d \in KeySeqs(DatasetNames, 0, MaxDatasets)}

\* early stop: the LR floor is at the initial LR, so the plateau exit can fire
EarlyStopCfgs ==
    {[DefaultCfg EXCEPT !.lb_lr = MaxLR, !.train_patience = tp, !.early_stoping = es,
                        !.save_chkpt = sc] :
        tp \in 0 .. 1, es \in BOOLEAN, sc \in BOOLEAN}

\* the schedulers of the two models
SchedCfgs ==
    {[DefaultCfg EXCEPT !.scheds = sk, !.lr_finder = lf, !.max_epoch = 2] :
        sk \in [1 .. 2 -> SchedKinds], lf \in BOOLEAN}

\* lengths of the optimizer and scheduler lists, an interval with no bound, visrank
ErrorCfgs ==
    {[DefaultCfg EXCEPT !.num_optimizers = no, !.num_schedulers = ns,
                        !.should_freeze_aux_models = f,
                        !.epoch_interval_for_aux_model_freeze = iv,
                        !.visrank = v, !.max_epoch = me, !.eval_freq = -1] :
        no \in 1 .. MaxModels, ns \in 1 .. MaxModels, f \in BOOLEAN,
        iv \in {<<>>, <<EpochIntervalToValue(None, None, TRUE, FALSE)>>},
        v \in BOOLEAN, me \in 0 .. 1}

\* a single model (not a list) is one model
RunCfgs ==
    {c \in FreezeCfgs \cup ScheduleCfgs \cup StopCfgs \cup EntryCfgs \cup KindCfgs :
        /\ c.models_is_list \/ Len(c.kinds) = 1
        /\ c.should_freeze_aux_models \/ c.epoch_interval_for_aux_model_freeze = <<>>}
    \cup ErrorCfgs \cup EarlyStopCfgs \cup SchedCfgs

\* engine.py 95-101: the assertions on the lengths of the lists
ConstructionFails(c) ==
    /\ c.models_is_list
    /\ (c.num_optimizers # Len(c.kinds) \/ c.num_schedulers # Len(c.kinds))

\* the names registered by a constructor that ran to its end
ConstructedNames(c) ==
    IF ConstructionFails(c) THEN <<>> ELSE RegisteredNames(c.models_is_list, Len(c.kinds))

\* Engine.__init__ 54-112
RunInit ==
    /\ cfg \in RunCfgs
    /\ model_kinds = cfg.kinds
    /\ test_datasets = cfg.datasets
    /\ lb_lr = cfg.lb_lr
    /\ train_patience = cfg.train_patience
    /\ model_names = ConstructedNames(cfg)
    /\ model_names_to_freeze =
           IF ConstructionFails(cfg)
           THEN <<>>
           ELSE NamesToFreeze(cfg.models_is_list, Len(cfg.kinds),
                              cfg.should_freeze_aux_models)
    /\ models = [name \in {ConstructedNames(cfg)[i] : i \in DOMAIN ConstructedNames(cfg)}
                     |-> NewModel]
    /\ cur_lr = MaxLR
    /\ epoch = None
    /\ start_epoch = 0
    /\ max_epoch = None
    /\ fixbase_epoch = 0
    /\ batch_idx = None
    /\ pc = IF ConstructionFails(cfg) THEN "raised" ELSE "idle"
    /\ next_epoch = 0
    /\ batch_next = 0
    /\ stop = FALSE
    /\ processed = 0
    /\ fb_started = 0
    /\ epochs_started = 0
    /\ stop_in_call = FALSE
    /\ ntests = 0
    /\ checkpoints = <<>>
    /\ latest = <<>>
    /\ result = NoReturn
    /\ err = IF ConstructionFails(cfg) THEN "AssertionError" ELSE "none"
    /\ nfinal = 0
    /\ final_top1 = None
    /\ sched_steps = 0
    /\ nperiodic = 0
    /\ early_stopped = FALSE
    /\ sel_epochs = <<>>
    /\ nsaves = 0
    /\ write_failed = FALSE
    /\ epoch_steps = <<>>
    /\ sched_calls = <<>>
    /\ lr_in_epoch = None

\* the engine part is not used
RunIdle ==
    /\ cfg = DefaultCfg
    /\ model_names = <<>>
    /\ model_names_to_freeze = <<>>
    /\ models = <<>>
    /\ cur_lr = MaxLR
    /\ epoch = None
    /\ start_epoch = 0
    /\ max_epoch = None
    /\ fixbase_epoch = 0
    /\ batch_idx = None
    /\ pc = "idle"
    /\ next_epoch = 0
    /\ batch_next = 0
    /\ stop = FALSE
    /\ processed = 0
    /\ fb_started = 0
    /\ epochs_started = 0
    /\ stop_in_call = FALSE
    /\ ntests = 0
    /\ checkpoints = <<>>
    /\ latest = <<>>
    /\ result = NoReturn
    /\ err = "none"
    /\ nfinal = 0
    /\ final_top1 = None
    /\ sched_steps = 0
    /\ nperiodic = 0
    /\ early_stopped = FALSE
    /\ sel_epochs = <<>>
    /\ nsaves = 0
    /\ write_failed = FALSE
    /\ epoch_steps = <<>>
    /\ sched_calls = <<>>
    /\ lr_in_epoch = None

\* ========================================================================
\* tools/data/prepare_submission.py: load_tracks
\* ========================================================================
\* the numbers a line of the file may hold: 1-based ids, 0 and
\* MaxGallery + 1 included
FileTokens == 0 .. MaxGallery + 1
TrackLines == SeqsUpTo(FileTokens, 0, MaxLineLen)
TrackFiles == SeqsUpTo(TrackLines, 0, MaxLines)

LineIds_OneBased(line) == line

\* prepare_submission.py 107-108: the tokens of a line as 0-based ids
LineIds(line) == [k \in DOMAIN line |-> line[k] - 1]

\* prepare_submission.py 106-114: the loop over the lines from line i on
RECURSIVE ReadTracks(_, _, _, _)
ReadTracks(file, gallery_size, i, tracks) ==
    IF i > Len(file)
    THEN Returned(tracks)
    ELSE LET ids == LineIds(file[i])
         IN  IF ~(Len(ids) > 0)
             THEN AssertionFailed
             ELSE IF \E k \in DOMAIN ids : ~(0 <= ids[k] /\ ids[k] < gallery_size)
             THEN AssertionFailed
             ELSE ReadTracks(file, gallery_size, i + 1, Append(tracks, ids))

\* prepare_submission.py 116: the ids of all tracks in one list
RECURSIVE FlattenTracks(_)
FlattenTracks(tracks) ==
    IF tracks = <<>> THEN <<>> ELSE Head(tracks) \o FlattenTracks(Tail(tracks))

\* prepare_submission.py 124
RECURSIVE TotalLength(_)
TotalLength(tracks) ==
    IF tracks = <<>> THEN 0 ELSE Len(Head(tracks)) + TotalLength(Tail(tracks))

\* the orders in which a set can be iterated
Orders(S) == {q \in [1 .. Cardinality(S) -> S] : SeqRange(q) = S}

\* prepare_submission.py 119
RestIds(gallery_size, track_ids) == (0 .. gallery_size - 1) \ SeqRange(track_ids)

\* prepare_submission.py 104-126; `order` is the order in which the set
\* rest_ids is iterated
load_tracks(file, gallery_size, order) ==
    LET read == ReadTracks(file, gallery_size, 1, <<>>)
    IN  IF read.raised
        THEN AssertionFailed
        ELSE LET track_ids == FlattenTracks(read.value)
                 tracks == read.value \o [k \in DOMAIN order |-> <<order[k]>>]
             IN  IF Len(track_ids) # Cardinality(SeqRange(track_ids))
                 THEN AssertionFailed
                 ELSE IF TotalLength(tracks) # gallery_size
                 THEN AssertionFailed
                 ELSE Returned(tracks)

TrkIdle ==
    /\ trk_file = <<>>
    /\ trk_gallery_size = 0
    /\ trk_pc = "idle"
    /\ trk_out = Returned(<<>>)

\* prepare_submission.py 194-195: the arguments of the call
TrkInit ==
    /\ trk_file \in TrackFiles
    /\ trk_gallery_size \in 0 .. MaxGallery
    /\ trk_pc = "idle"
    /\ trk_out = Returned(<<>>)

\* prepare_submission.py 104-126
TrkLoad ==
    /\ trk_pc = "idle"
    /\ LET read == ReadTracks(trk_file, trk_gallery_size, 1, <<>>)
           rest == IF read.raised THEN {}
                   ELSE RestIds(trk_gallery_size, FlattenTracks(read.value))
       IN  \E order \in Orders(rest) :
              trk_out' = load_tracks(trk_file, trk_gallery_size, order)
    /\ trk_pc' = IF trk_out'.raised THEN "raised" ELSE "returned"
    /\ UNCHANGED <<trk_file, trk_gallery_size>>

\* ========================================================================
\* Specifications
\* ========================================================================
InitInterval == IvInit /\ SelIdle /\ TestIdle /\ RunIdle /\ RegIdle /\ SvIdle /\ TrkIdle
NextInterval ==
    \/ IvEvaluate /\ UNCHANGED <<selVars, testVars, runVars, regVars, svVars, trkVars>>
    \/ IvNextEpoch /\ UNCHANGED <<selVars, testVars, runVars, regVars, svVars, trkVars>>
SpecInterval == InitInterval /\ [][NextInterval]_vars

InitSelector == SelInit /\ IvIdle /\ TestIdle /\ RunIdle /\ RegIdle /\ SvIdle /\ TrkIdle
NextSelector ==
    \/ SelCall /\ UNCHANGED <<ivVars, testVars, runVars, regVars, svVars, trkVars>>
    \/ SelTrainBatch /\ UNCHANGED <<ivVars, testVars, runVars, regVars, svVars, trkVars>>
SpecSelector == InitSelector /\ [][NextSelector]_vars

InitTest == TestInit /\ SelIdle /\ IvIdle /\ RunIdle /\ RegIdle /\ SvIdle /\ TrkIdle
NextTest ==
    \/ TestStart /\ UNCHANGED <<selVars, ivVars, runVars, regVars, svVars, trkVars>>
    \/ TestIterate /\ UNCHANGED <<selVars, ivVars, runVars, regVars, svVars, trkVars>>
    \/ TestReturn /\ UNCHANGED <<selVars, ivVars, runVars, regVars, svVars, trkVars>>
SpecTest == InitTest /\ [][NextTest]_vars

InitRegistry == RegInit /\ SelIdle /\ IvIdle /\ TestIdle /\ RunIdle /\ SvIdle /\ TrkIdle
NextRegistry ==
    \/ RegRegister /\ UNCHANGED <<selVars, ivVars, testVars, runVars, svVars, trkVars>>
    \/ RegGetNames /\ UNCHANGED <<selVars, ivVars, testVars, runVars, svVars, trkVars>>
SpecRegistry == InitRegistry /\ [][NextRegistry]_vars

InitSave == SvInit /\ SelIdle /\ IvIdle /\ TestIdle /\ RunIdle /\ RegIdle /\ TrkIdle
NextSave ==
    \/ SvCall /\ UNCHANGED <<selVars, ivVars, testVars, runVars, regVars, trkVars>>
    \/ SvWrite /\ UNCHANGED <<selVars, ivVars, testVars, runVars, regVars, trkVars>>
    \/ SvWriteFails /\ UNCHANGED <<selVars, ivVars, testVars, runVars, regVars, trkVars>>
    \/ SvLexists /\ UNCHANGED <<selVars, ivVars, testVars, runVars, regVars, trkVars>>
    \/ SvRemove /\ UNCHANGED <<selVars, ivVars, testVars, runVars, regVars, trkVars>>
    \/ SvSymlink /\ UNCHANGED <<selVars, ivVars, testVars, runVars, regVars, trkVars>>
SpecSave == InitSave /\ [][NextSave]_vars

InitTracks == TrkInit /\ SelIdle /\ IvIdle /\ TestIdle /\ RunIdle /\ RegIdle /\ SvIdle
NextTracks ==
    \/ TrkLoad /\ UNCHANGED <<selVars, ivVars, testVars, runVars, regVars, svVars>>
SpecTracks == InitTracks /\ [][NextTracks]_vars

\* the engine: construction followed by one run()
runFrame == <<ivVars, cfgVars, test_datasets, model_kinds, t_pc, t_di, t_mi, t_cur,
              t_top, t_ret, lb_lr, train_patience, regVars, svVars, trkVars>>
Init ==
    /\ RunInit
    /\ RegIdle
    /\ SvIdle
    /\ TrkIdle
    /\ SelFresh
    /\ IvIdle
    /\ t_pc = "idle" /\ t_di = 0 /\ t_mi = 0
    /\ t_cur = NoResult /\ t_top = NoResult /\ t_ret = NoResult
Next ==
    \/ RunEnter /\ UNCHANGED runFrame
    \/ TrainBegin /\ UNCHANGED runFrame
    \/ LoopExhausted /\ UNCHANGED runFrame
    \/ BatchStart /\ UNCHANGED runFrame
    \/ ForwardBackwardDone /\ UNCHANGED runFrame
    \/ BatchesExhausted /\ UNCHANGED runFrame
    \/ TrainEnd /\ UNCHANGED runFrame
    \/ EpochPoll /\ UNCHANGED runFrame
    \/ PeriodicEval /\ UNCHANGED runFrame
    \/ NoPeriodicEval /\ UNCHANGED runFrame
    \/ FinalTest /\ UNCHANGED runFrame
    \/ SetStop /\ UNCHANGED runFrame
Spec == Init /\ [][Next]_vars

\* ========================================================================
\* Properties
\* ========================================================================

\* C1: the tuple Engine.test() returns was produced by an evaluator for the
\* first registered model, never for another model.
C1_ReturnsFirstModelOnly ==
    (t_pc = "returned" /\ t_ret # NoResult) => t_ret.model = 0

\* C2: from a fresh selector, with the same top-1 and lr_of_previous_iter = lb_lr
\* on every call, should_exit is false before the train_patience-th consecutive
\* non-improving call and true on it (the first call is the improving one, so
\* call number train_patience + 1); train_patience = 3 gives [F, F, F, T].
C2_ExitExactlyAtPatience ==
    (ncalls >= 1 /\ same_seq /\ call_lr = lb_lr /\ train_patience >= 1)
        => (should_exit <=> (ncalls - 1 >= train_patience))

C2_Witness ==
    /\ ncalls = 4 /\ same_seq /\ call_lr = lb_lr /\ lb_lr = 1
    /\ call_top1 = 5000000 /\ train_patience = 3 /\ should_exit

\* C3: should_exit = true only with lr_of_previous_iter <= lb_lr, iter_to_wait >=
\* train_patience and no best-candidate; a constant top-1 at a constant LR above
\* lb_lr never gives should_exit.
C3_ExitNeedsFloorAndPatience ==
    ncalls >= 1 =>
        /\ should_exit => /\ call_lr # None
                          /\ call_lr <= lb_lr
                          /\ iter_to_wait >= train_patience
                          /\ ~is_candidate_for_best
        /\ (same_seq /\ call_lr > lb_lr) => ~should_exit

C3_Witness ==
    /\ ncalls = MaxCalls /\ same_seq /\ call_lr > lb_lr
    /\ train_patience >= 1 /\ iter_to_wait >= train_patience /\ ~should_exit

\* C4: a call whose lr_of_previous_iter differs from that of the call before it
\* resets iter_to_wait to 0 and is a best-candidate (and not an exit), whatever
\* the top-1 is.
C4_LrChangeResets ==
    lr_changed => (iter_to_wait = 0 /\ is_candidate_for_best /\ ~should_exit)

C4_Witness ==
    /\ lr_changed /\ ncalls >= 3 /\ call_top1 = 0 /\ call_lr = lb_lr
    /\ iter_to_wait = 0 /\ is_candidate_for_best

\* C5 as stated: every call of a strictly increasing top-1 sequence at constant
\* LR (here: an LR recorded by training) is a best-candidate and leaves
\* iter_to_wait = 0.
C5_Original ==
    (ncalls >= 1 /\ inc_raw) => (is_candidate_for_best /\ iter_to_wait = 0)

\* C5 amended: from a fresh selector, every call of a sequence whose top-1 values
\* rounded to 4 decimals are strictly increasing, at a constant lr_of_previous_iter
\* that is set (not None), is a best-candidate and leaves iter_to_wait = 0.
C5_RoundedIncreasing ==
    (ncalls >= 1 /\ inc_rnd) => (is_candidate_for_best /\ iter_to_wait = 0)

C5_Witness ==
    ncalls >= 3 /\ inc_rnd /\ is_candidate_for_best /\ iter_to_wait = 0

\* C6: with only `first` set the policy returns value_outside below first and
\* value_inside from first on; with only `last` set value_inside up to last and
\* value_outside above it; with neither set it raises and returns no value.
C6_IntervalPolicy ==
    iv_called =>
        /\ (iv_interval.first # None /\ iv_interval.last = None) =>
              iv_result = Returned(IF iv_epoch < iv_interval.first
                                   THEN iv_interval.value_outside
                                   ELSE iv_interval.value_inside)
        /\ (iv_interval.first = None /\ iv_interval.last # None) =>
              iv_result = Returned(IF iv_epoch <= iv_interval.last
                                   THEN iv_interval.value_inside
                                   ELSE iv_interval.value_outside)
        /\ (iv_interval.first = None /\ iv_interval.last = None) => iv_result.raised

C6_Witness ==
    /\ iv_called /\ iv_interval.last = None /\ iv_interval.first # None
    /\ iv_epoch = iv_interval.first
    /\ iv_interval.value_inside # iv_interval.value_outside
    /\ iv_result = Returned(iv_interval.value_inside)

\* the freeze decision of the epoch has been applied and no batch has started
AtEpochStart == pc = "batches" /\ batch_next = 0

\* the layers the layer policy leaves trainable in the current epoch
PolicyLayers ==
    IF (epoch + 1) <= cfg.fixbase_epoch /\ cfg.open_layers # <<>>
    THEN cfg.open_layers[1] \cap Layers
    ELSE Layers

\* C7 as stated: before the first batch of an epoch every auxiliary model is in
\* eval mode with no trainable layer if the epoch is flagged for freezing, and in
\* train mode with all layers open if it is not, for every fixbase_epoch and
\* open_layers.
C7_Original ==
    AtEpochStart =>
        \A i \in DOMAIN model_names_to_freeze :
            LET m == models[model_names_to_freeze[i]]
            IN  IF _should_freeze_aux_models(epoch).value
                THEN m.mode = "eval" /\ m.trainable = {}
                ELSE m.mode = "train" /\ m.trainable = Layers

\* C7 amended: in an epoch flagged for freezing every auxiliary model is in eval
\* mode with no trainable layer; in an epoch not flagged it is in train mode and
\* its trainable layers are those the layer policy leaves open: only open_layers
\* while epoch+1 <= fixbase_epoch and open_layers is configured, all layers
\* otherwise.
C7_FreezeContract ==
    AtEpochStart =>
        \A i \in DOMAIN model_names_to_freeze :
            LET m == models[model_names_to_freeze[i]]
            IN  IF _should_freeze_aux_models(epoch).value
                THEN m.mode = "eval" /\ m.trainable = {}
                ELSE m.mode = "train" /\ m.trainable = PolicyLayers

C7_Witness ==
    /\ AtEpochStart
    /\ model_names_to_freeze # <<>>
    /\ ~_should_freeze_aux_models(epoch).value
    /\ (epoch + 1) <= cfg.fixbase_epoch
    /\ cfg.open_layers = <<{"classifier"}>>
    /\ models["model_1"] = [mode |-> "train", trainable |-> {"classifier"}]

ScenarioA ==
    /\ cfg.models_is_list
    /\ Len(model_names) = 2
    /\ cfg.should_freeze_aux_models
    /\ cfg.epoch_interval_for_aux_model_freeze = <<>>

\* C8: the first registered model is never in model_names_to_freeze; with
\* model_0 and model_1, freezing enabled and no interval, model_1 is frozen at the
\* start of every epoch and model_0 at none.
C8_MainNeverFrozen ==
    /\ model_names # <<>> => ~InSeq(model_names[1], model_names_to_freeze)
    /\ (ScenarioA /\ AtEpochStart) =>
          /\ models["model_1"] = [mode |-> "eval", trainable |-> {}]
          /\ models["model_0"].mode = "train"

C8_Witness ==
    /\ ScenarioA /\ AtEpochStart /\ epoch = MaxEpoch - 1
    /\ model_names_to_freeze = <<"model_1">>
    /\ models["model_1"] = [mode |-> "eval", trainable |-> {}]
    /\ models["model_0"] = [mode |-> "train", trainable |-> Layers]

\* C9: every checkpoint written during run() is of an epoch all of whose batches
\* went through the training step; an epoch cut short by the stop signal is
\* never checkpointed.
C9_NoPartialEpochCheckpoint ==
    \A i \in DOMAIN checkpoints : checkpoints[i].complete

FinalStep == pc = "final" /\ pc' # pc

\* C11: in a training-mode run with max_epoch > 0, once the epoch loop has ended
\* (epochs exhausted, early stop or cancellation) exactly one final evaluation
\* runs and run() returns the top-1 of that evaluation (a failing checkpoint
\* write aside).
C11_FinalEvaluationReturned ==
    [][ (FinalStep /\ ~cfg.test_only /\ max_epoch > 0 /\ err' # "OSError")
            => /\ ntests' = ntests + 1
               /\ nfinal' = 1
               /\ pc' = "returned"
               /\ result' = ReturnScalar(final_top1')
      ]_vars

\* the invocation was rejected as a configuration error
RejectedAsConfigError == err \in {"AssertionError", "ValueError", "RuntimeError"}

\* C12: every invocation of run() that is not rejected as a configuration error
\* (and in which no checkpoint write fails) returns one scalar: the top-1 of the
\* final evaluation in training mode, for every max_epoch >= 0 and start_epoch,
\* and the top-1 of the immediate evaluation with test_only.
C12_ReturnsOneScalar ==
    (pc \in {"returned", "raised"} /\ ~RejectedAsConfigError /\ err # "OSError")
        => /\ pc = "returned"
           /\ result.kind = "scalar"
           /\ ~cfg.test_only => (nfinal = 1 /\ result.top1 = final_top1)

\* C13: with test_only, run() performs exactly one evaluation and returns; no
\* training step and no scheduler step is executed, best_metric, iter_to_wait,
\* lr_prev_best_metric, lr_of_previous_iter, start_epoch and max_epoch keep their
\* values, and no checkpoint and no latest pointer is written.
C13_TestOnlyEvaluatesOnce ==
    [][ (cfg.test_only /\ pc = "idle" /\ pc' # pc)
            => /\ pc' = "returned"
               /\ ntests' = ntests + 1
               /\ UNCHANGED <<fb_started, epochs_started, processed, sched_steps, cur_lr,
                              best_metric, iter_to_wait, lr_prev_best_metric,
                              lr_of_previous_iter, start_epoch, max_epoch,
                              checkpoints, latest, nsaves>>
      ]_vars

C13_Witness ==
    /\ cfg.test_only /\ pc = "returned" /\ result.kind = "tuple"
    /\ ntests = 1 /\ fb_started = 0 /\ sched_steps = 0
    /\ max_epoch = None /\ checkpoints = <<>> /\ latest = <<>>

\* the configured freeze interval has neither bound
IntervalUnset ==
    /\ cfg.epoch_interval_for_aux_model_freeze # <<>>
    /\ cfg.epoch_interval_for_aux_model_freeze[1].first = None
    /\ cfg.epoch_interval_for_aux_model_freeze[1].last = None

ConfigurationError ==
    \/ ConstructionFails(cfg)
    \/ cfg.visrank /\ ~cfg.test_only
    \/ IntervalUnset

\* C14: an engine with a configuration error (lists of different lengths,
\* visrank without test_only, an interval with both bounds unset) starts no
\* epoch, processes no training batch and does not return from run().
C14_ConfigErrorBeforeAnyEpoch ==
    ConfigurationError =>
        /\ epochs_started = 0
        /\ fb_started = 0
        /\ processed = 0
        /\ pc # "returned"

\* the latest pointer references a complete checkpoint of the main model for the
\* current epoch, and that checkpoint has been written
LatestIsMainOfEpoch ==
    /\ latest # <<>>
    /\ latest[1].name = model_names[1]
    /\ latest[1].epoch = epoch + 1
    /\ latest[1].complete
    /\ \E i \in DOMAIN checkpoints : checkpoints[i] = latest[1]

\* C15 as stated: whenever the epoch loop ended through early stop, a checkpoint
\* of the main model for the epoch of the stop has been written, the latest
\* pointer references it, and run() ends with a return value, not an error.
C15_Original ==
    early_stopped =>
        /\ LatestIsMainOfEpoch
        /\ pc \in {"returned", "raised"} => (pc = "returned" /\ result.kind = "scalar")

\* C15 amended: with save_chkpt enabled, whenever the epoch loop ended through
\* early stop, a checkpoint of the main model for the epoch of the stop has been
\* written and the latest pointer references it; run() then ends with a return
\* value unless a checkpoint write of the final save raises.
C15_EarlyStopLeavesCheckpoint ==
    (early_stopped /\ cfg.save_chkpt) =>
        /\ LatestIsMainOfEpoch
        /\ (pc \in {"returned", "raised"} /\ ~write_failed)
              => (pc = "returned" /\ result.kind = "scalar")

C15_Witness ==
    /\ early_stopped /\ cfg.save_chkpt /\ pc = "returned"
    /\ epoch = 1 /\ max_epoch = MaxEpoch
    /\ LatestIsMainOfEpoch
    /\ result = ReturnScalar(final_top1)

\* C16: a completed save_model call has written one checkpoint per registered
\* model and leaves the latest pointer on the checkpoint it wrote for the first
\* registered model; the pointer never references the checkpoint of an auxiliary
\* model, and there is at most one pointer.
C16_LatestIsMainOfLastSave ==
    [][ /\ nsaves' = nsaves + 1 =>
              /\ Len(checkpoints') = Len(checkpoints) + Len(model_names)
              /\ latest' = <<checkpoints'[Len(checkpoints) + 1]>>
              /\ latest'[1].name = model_names[1]
        /\ latest' # latest =>
              /\ Len(checkpoints') > Len(checkpoints)
              /\ latest' = <<checkpoints'[Len(checkpoints) + 1]>>
              /\ latest'[1].name = model_names[1]
        /\ Len(latest') <= 1
      ]_vars

C16_Witness ==
    /\ nsaves >= 2 /\ Len(model_names) >= 2
    /\ Len(checkpoints) = nsaves * Len(model_names)
    /\ latest = <<checkpoints[Len(checkpoints) - Len(model_names) + 1]>>
    /\ latest[1].name = "model_0"
    /\ checkpoints[Len(checkpoints)].name # "model_0"

\* C17: when a checkpoint write raises during save_model, run() ends with that
\* error and no result; afterwards no epoch or batch is trained, no evaluation
\* and no selector call happens.
C17_WriteFailurePropagates ==
    [][ /\ write_failed' => (pc' = "raised" /\ err' = "OSError" /\ result' = NoReturn)
        /\ write_failed => UNCHANGED <<pc, result, epochs_started, fb_started, ntests,
                                       ncalls, checkpoints, latest>>
      ]_vars

C17_Witness ==
    /\ write_failed /\ pc = "raised" /\ err = "OSError" /\ result = NoReturn
    /\ Len(model_names) = 2 /\ Len(checkpoints) = 1
    /\ epochs_started = 1 /\ max_epoch = MaxEpoch

\* C18: within one run() no two calls of exit_on_plateau_and_choose_best are
\* made for the same epoch index, the epoch of an early stop included.
C18_OneSelectorCallPerEpoch ==
    \A i, j \in DOMAIN sel_epochs : sel_epochs[i] = sel_epochs[j] => i = j

\* C19: Engine.test() starts only before the first epoch, between two epochs or
\* after the loop, never inside a batch iteration; when it has run every
\* registered model is in eval mode; the batch iteration of every epoch starts
\* and proceeds with the main model in train mode.
C19_EvaluationOutsideTraining ==
    [][ /\ ntests' # ntests =>
              /\ pc \in {"idle", "eval_check", "final"}
              /\ \A i \in DOMAIN model_names : models'[model_names[i]].mode = "eval"
        /\ pc' \in {"batches", "forward_backward"} =>
              models'[model_names[1]].mode = "train"
      ]_vars

C19_Witness ==
    /\ pc = "forward_backward" /\ epoch = 1 /\ ntests = 2
    /\ models[model_names[1]].mode = "train"

\* C20: after a training epoch e that was not stopped, the periodic evaluation
\* runs if and only if (e+1) >= start_eval, eval_freq > 0, (e+1) mod eval_freq = 0
\* and e+1 # max_epoch; with eval_freq <= 0 no periodic evaluation runs and the
\* selector is called only at the final evaluation.
C20_PeriodicEvaluationSchedule ==
    [][ /\ (pc = "eval_check" /\ pc' # pc) =>
              ((nperiodic' = nperiodic + 1 /\ ntests' = ntests + 1)
                  <=> (/\ (epoch + 1) >= cfg.start_eval
                       /\ cfg.eval_freq > 0
                       /\ (epoch + 1) % cfg.eval_freq = 0
                       /\ (epoch + 1) # cfg.max_epoch))
        /\ nperiodic' # nperiodic => (pc = "eval_check" /\ nperiodic' = nperiodic + 1)
        /\ cfg.eval_freq <= 0 => (nperiodic' = 0 /\ (ncalls' # ncalls => pc = "final"))
      ]_vars

C20_Witness ==
    /\ pc = "final" /\ epoch = 2 /\ max_epoch = 3
    /\ cfg.start_eval = 2 /\ cfg.eval_freq = 2
    /\ nperiodic = 1 /\ ntests = 2 /\ ncalls = 1

\* the number of epochs of range(start_epoch, max_epoch)
EpochsInRange == IF max_epoch > start_epoch THEN max_epoch - start_epoch ELSE 0

\* C21: the selector ends the epoch loop only at a periodic evaluation at which
\* it returned should_exit with early stopping enabled, and no epoch is trained
\* afterwards; with early stopping disabled and no stop signal the loop ends only
\* when every epoch of start_epoch .. max_epoch-1 has been trained, and the
\* epochs are trained once each in increasing order.
C21_SelectorEndsLoopOnlyWithEarlyStop ==
    [][ /\ (pc = "eval_check" /\ pc' = "final") =>
              /\ cfg.early_stoping
              /\ should_exit'
              /\ nperiodic' = nperiodic + 1
              /\ early_stopped'
        /\ early_stopped => epochs_started' = epochs_started
        /\ epochs_started' # epochs_started =>
              /\ epochs_started' = epochs_started + 1
              /\ epoch' = start_epoch + epochs_started
              /\ epoch' < max_epoch
        /\ (pc # "final" /\ pc' = "final" /\ ~cfg.early_stoping /\ ~stop) =>
              epochs_started = EpochsInRange
      ]_vars

C21_Witness ==
    /\ ~cfg.early_stoping /\ ~cfg.stop_callback /\ cfg.lb_lr = MaxLR
    /\ pc = "final" /\ should_exit /\ nperiodic = MaxEpoch - 1
    /\ epochs_started = MaxEpoch /\ epoch = MaxEpoch - 1 /\ max_epoch = MaxEpoch

\* C22: one call of the selector takes exactly one of two transitions. If
\* lr_of_previous_iter equals lr_prev_best_metric and round(top1, 4) <=
\* best_metric: iter_to_wait grows by 1, best_metric and lr_prev_best_metric keep
\* their values and is_candidate_for_best is false. Otherwise best_metric becomes
\* round(top1, 4), iter_to_wait 0, lr_prev_best_metric the lr_of_previous_iter,
\* is_candidate_for_best true and should_exit false. The two results are never
\* both true.
C22_TwoTransitions ==
    [][ ncalls' = ncalls + 1 =>
          /\ IF /\ lr_of_previous_iter = lr_prev_best_metric
                /\ RoundedTo4Decimals(call_top1') <= best_metric
             THEN /\ iter_to_wait' = iter_to_wait + 1
                  /\ best_metric' = best_metric
                  /\ lr_prev_best_metric' = lr_prev_best_metric
                  /\ ~is_candidate_for_best'
             ELSE /\ best_metric' = RoundedTo4Decimals(call_top1')
                  /\ iter_to_wait' = 0
                  /\ lr_prev_best_metric' = lr_of_previous_iter
                  /\ is_candidate_for_best'
                  /\ ~should_exit'
          /\ ~(should_exit' /\ is_candidate_for_best')
      ]_vars

C22_Witness ==
    /\ ncalls = 3 /\ call_top1 = 5 /\ call_lr = 1
    /\ best_metric = 10 /\ iter_to_wait = 2 /\ ~is_candidate_for_best
    /\ lr_prev_best_metric = 1

\* C29: after every call of the selector lr_prev_best_metric equals the
\* lr_of_previous_iter of that call, iter_to_wait >= 0 and iter_to_wait is the
\* number of consecutive non-candidate calls since the most recent best-candidate
\* call.
C29_WaitCountsNonCandidates ==
    ncalls >= 1 =>
        /\ lr_prev_best_metric = call_lr
        /\ iter_to_wait >= 0
        /\ iter_to_wait = noncand_run

C29_Witness ==
    /\ ncalls = MaxCalls /\ call_lr # None /\ lr_prev_best_metric = call_lr
    /\ iter_to_wait = 2 /\ noncand_run = 2 /\ best_metric > 0

\* C30: after every call made with lr_of_previous_iter set, best_metric is the
\* largest rounded top-1 of the calls made since the LR of the calls last
\* changed; it does not decrease while the LR stays the same and may drop when
\* the LR changes.
C30_BestIsBucketMaximum ==
    (ncalls >= 1 /\ call_lr # None) =>
        /\ best_metric = bucket_max
        /\ (ncalls >= 2 /\ ~lr_changed) => best_metric >= prev_best

C30_Witness ==
    /\ ncalls >= 3 /\ call_lr # None /\ lr_changed
    /\ best_metric = 0 /\ prev_best = 5000000 /\ bucket_max = 0

\* the position of a call in the order train() is stated to follow
StepRank(step) ==
    CASE step = "set_model_mode" -> 1
      [] step = "_unfreeze_aux_models" -> 2
      [] step = "two_stepped_transfer_learning" -> 3
      [] step = "_freeze_aux_models" -> 4
      [] step = "forward_backward" -> 5
      [] step = "update_lr" -> 6

\* how often a call was made in the current epoch
StepCount(step) == Cardinality({i \in DOMAIN epoch_steps : epoch_steps[i] = step})

\* C23: within an epoch the calls come in the order train mode, unfreeze (only in
\* an epoch not flagged), layer policy, freeze (only in a flagged epoch), batch
\* iteration, scheduler step; unfreezing is never after the layer policy and
\* freezing never before it, and exactly one of the two is applied, so that in a
\* flagged epoch the auxiliary models enter the batches frozen.
C23_OrderWithinEpoch ==
    epoch_steps # <<>> =>
        /\ epoch_steps[1] = "set_model_mode"
        /\ \A i, j \in DOMAIN epoch_steps :
              i < j => \/ StepRank(epoch_steps[i]) < StepRank(epoch_steps[j])
                       \/ /\ epoch_steps[i] = "forward_backward"
                          /\ epoch_steps[j] = "forward_backward"
        /\ Len(epoch_steps) >= 3 =>
              /\ StepCount("two_stepped_transfer_learning") = 1
              /\ StepCount("_unfreeze_aux_models") + StepCount("_freeze_aux_models") = 1
              /\ StepCount("_freeze_aux_models") = 1
                    <=> _should_freeze_aux_models(epoch).value
        /\ (AtEpochStart /\ _should_freeze_aux_models(epoch).value) =>
              \A i \in DOMAIN model_names_to_freeze :
                  models[model_names_to_freeze[i]] = [mode |-> "eval", trainable |-> {}]

C23_Witness ==
    /\ pc = "epoch_poll" /\ model_names_to_freeze # <<>> /\ cfg.open_layers # <<>>
    /\ epoch_steps = <<"set_model_mode", "two_stepped_transfer_learning",
                       "_freeze_aux_models", "forward_backward", "update_lr">>

\* C24: at every epoch with epoch+1 <= fixbase_epoch and open_layers configured
\* only the layers in open_layers are trainable on the main model and on every
\* model not frozen in that epoch; at every other epoch all their layers are
\* open, so the layers closed in the fixbase phase are open again from the first
\* epoch after it.
C24_LayerPolicyEveryEpoch ==
    AtEpochStart =>
        \A i \in DOMAIN model_names :
            (i = 1 \/ ~InSeq(model_names[i], model_names_to_freeze)
                   \/ ~_should_freeze_aux_models(epoch).value)
                => models[model_names[i]].trainable =
                       (IF (epoch + 1) <= cfg.fixbase_epoch /\ cfg.open_layers # <<>>
                        THEN cfg.open_layers[1] \cap Layers
                        ELSE Layers)

C24_Witness ==
    /\ AtEpochStart /\ cfg.fixbase_epoch = 1 /\ epoch = 1
    /\ cfg.open_layers = <<{"classifier"}>>
    /\ models[model_names[1]].trainable = Layers

\* the registered models that have a scheduler
WithScheduler == {i \in DOMAIN model_names : cfg.scheds[i] # "None"}

\* C25: outside search mode every non-null scheduler is stepped exactly once per
\* epoch, after all batches of the epoch have been processed and before the
\* evaluation of the epoch; metric-based schedulers get the average training
\* loss, the others no argument; in search mode no scheduler is stepped.
C25_SchedulerStepPerEpoch ==
    [][ /\ sched_steps' # sched_steps =>
              /\ ~cfg.lr_finder
              /\ pc = "update_lr"
              /\ sched_steps' = sched_steps + 1
              /\ processed = cfg.num_batches
              /\ Len(sched_calls') = Cardinality(WithScheduler)
              /\ \A i \in WithScheduler :
                    \E k \in DOMAIN sched_calls' :
                        /\ sched_calls'[k].name = model_names[i]
                        /\ sched_calls'[k].metrics
                              <=> cfg.scheds[i] \in {"ReduceLROnPlateau", "WarmupScheduler"}
        /\ (pc = "update_lr" /\ pc' # pc /\ ~cfg.lr_finder) => sched_steps' = sched_steps + 1
        /\ (ntests' # ntests /\ ~cfg.lr_finder) => sched_steps = epochs_started
        /\ cfg.lr_finder => sched_steps' = 0
      ]_vars

\* C26: whenever the selector is consulted after an epoch that processed a
\* batch, the lr_of_previous_iter it uses is the main model's LR that was in
\* effect when the batch loop of that epoch ended, i.e. the LR before the
\* scheduler step of the epoch; lr_of_previous_iter is rewritten with the current
\* LR after every batch and by nothing else.
C26_SelectorSeesTrainingLR ==
    [][ /\ (ncalls' = ncalls + 1 /\ processed >= 1) =>
              /\ lr_of_previous_iter = lr_in_epoch
              /\ call_lr' = lr_in_epoch
        /\ (pc = "forward_backward" /\ pc' # pc) => lr_of_previous_iter' = cur_lr
        /\ lr_of_previous_iter' # lr_of_previous_iter => pc = "forward_backward"
      ]_vars

C26_Witness ==
    /\ ncalls = 1 /\ pc = "loop" /\ epoch = 0 /\ processed = 1
    /\ call_lr = MaxLR /\ lr_in_epoch = MaxLR /\ cur_lr = 1
    /\ lr_of_previous_iter = MaxLR

\* C27: get_model_names() with no argument returns all registered names in
\* registration order; with requested names it succeeds, returning them, if and
\* only if each of them is registered, and fails otherwise; it leaves the
\* registry as it is, and no operation removes or moves a registered name.
C27_RegistryLookup ==
    [][ /\ reg_op' = "get" =>
              /\ reg_names' = reg_names
              /\ reg_arg'.kind = "none" => reg_out' = Returned(reg_names)
              /\ reg_arg'.kind # "none" =>
                    /\ ~reg_out'.raised <=>
                          \A i \in DOMAIN reg_arg'.names :
                              \E k \in DOMAIN reg_names : reg_names[k] = reg_arg'.names[i]
                    /\ ~reg_out'.raised => reg_out'.value = reg_arg'.names
        /\ Len(reg_names') >= Len(reg_names)
        /\ \A k \in DOMAIN reg_names : reg_names'[k] = reg_names[k]
      ]_vars

C27_Witness ==
    /\ reg_op = "get"
    /\ reg_names = <<"model_1", "model_0">>
    /\ reg_arg = [kind |-> "list", names |-> <<"model_0", "model">>]
    /\ reg_out.raised

\* C28: with save_chkpt enabled and not in search mode, every periodic
\* evaluation and the final evaluation invoke save_model, which writes one
\* checkpoint per registered model recording epoch+1, flagged is_best exactly
\* when the selector marked that evaluation as a best-candidate.
EvaluationStep == nperiodic' # nperiodic \/ nfinal' # nfinal

NewCheckpointsOfEvaluation ==
    /\ nsaves' = nsaves + 1
    /\ Len(checkpoints') = Len(checkpoints) + Len(model_names)
    /\ \A i \in DOMAIN model_names :
          LET c == checkpoints'[Len(checkpoints) + i]
          IN  /\ c.name = model_names[i]
              /\ epoch # None
              /\ c.epoch = epoch + 1
              /\ c.is_best = is_candidate_for_best'

C28_CheckpointAtEveryEvaluation ==
    [][ (EvaluationStep /\ cfg.save_chkpt /\ ~cfg.lr_finder /\ ~write_failed')
            => NewCheckpointsOfEvaluation ]_vars

\* C31: if writing the main model's checkpoint fails inside save_model, the
\* latest pointer is the one that existed when the call began; the pointer is
\* removed only after this call has written the main model's checkpoint; and
\* once a pointer has been created, it is absent only between its removal and
\* its recreation.
MainWritten == \E k \in DOMAIN sv_written : sv_written[k].name = sv_names[1]

BetweenRemovalAndRecreation ==
    sv_pc = "running" /\ sv_steps # <<>> /\ Head(sv_steps) = "symlink"

C31_PointerSurvivesFailedWrite ==
    [][ /\ (sv_pc' = "raised" /\ sv_names[sv_i'] = sv_names[1]) => sv_latest' = sv_latest0'
        /\ (sv_latest # <<>> /\ sv_latest' = <<>>) => MainWritten
        /\ (sv_linked' /\ sv_latest' = <<>>) => BetweenRemovalAndRecreation'
      ]_vars

C31_Witness ==
    /\ sv_pc = "raised"
    /\ sv_i = 1
    /\ sv_linked
    /\ sv_latest # <<>>
    /\ sv_latest = sv_latest0

\* C32: every checkpoint written during run(start_epoch, max_epoch) records an
\* epoch value v with start_epoch < v <= max_epoch, v - 1 is an epoch whose
\* training was started in this run, and the values recorded by successive
\* save_model calls never decrease.
TrainedEpochs == {start_epoch + k : k \in 0 .. epochs_started - 1}

C32_CheckpointEpochsInRange ==
    /\ \A i \in DOMAIN checkpoints :
          /\ start_epoch < checkpoints[i].epoch
          /\ checkpoints[i].epoch <= max_epoch
          /\ checkpoints[i].epoch - 1 \in TrainedEpochs
    /\ \A i, j \in DOMAIN checkpoints :
          i < j => checkpoints[i].epoch <= checkpoints[j].epoch

C32_Witness ==
    /\ start_epoch > 0
    /\ Len(checkpoints) >= 2
    /\ checkpoints[1].epoch < checkpoints[Len(checkpoints)].epoch
    /\ pc = "returned"

\* C33: in search mode (lr_finder) no step of run() changes best_metric,
\* iter_to_wait or lr_prev_best_metric or calls the selector, none writes a
\* checkpoint or the latest pointer, and the only evaluations are periodic or
\* final ones (a test_only run aside, which never trains): there is no
\* evaluation before training, whatever eval_freq and save_chkpt are.
C33_SearchModeTouchesNothing ==
    [][ cfg.lr_finder =>
          /\ UNCHANGED <<best_metric, iter_to_wait, lr_prev_best_metric, ncalls>>
          /\ UNCHANGED <<checkpoints, latest, nsaves>>
          /\ (ntests' # ntests /\ ~cfg.test_only) =>
                (nperiodic' # nperiodic \/ nfinal' # nfinal)
      ]_vars

C33_Witness ==
    /\ cfg.lr_finder
    /\ cfg.save_chkpt
    /\ pc = "returned"
    /\ epochs_started >= 2
    /\ nperiodic >= 1
    /\ nfinal = 1
    /\ ntests = nperiodic + nfinal

\* C34: whenever load_tracks returns, every sample id in 0..gallery_size-1
\* occurs exactly once over all tracks and nothing else occurs, no track is
\* empty, the first tracks are the lines of the file converted from 1-based to
\* 0-based ids, and the remaining tracks are singletons of the ids absent from
\* the file; a file with an out-of-range id, an empty line or an id listed
\* twice makes the call fail.
TrackPositions(tracks) == {<<t, k>> : t \in DOMAIN tracks, k \in 1 .. MaxGallery + MaxLineLen}

Occurrences(tracks, id) ==
    {pos \in TrackPositions(tracks) :
        pos[2] \in DOMAIN tracks[pos[1]] /\ tracks[pos[1]][pos[2]] = id}

FileHasEmptyLine == \E i \in DOMAIN trk_file : trk_file[i] = <<>>

FileHasOutOfRangeId ==
    \E i \in DOMAIN trk_file : \E k \in DOMAIN trk_file[i] :
        trk_file[i][k] < 1 \/ trk_file[i][k] > trk_gallery_size

FileHasRepeatedId ==
    \E i, j \in DOMAIN trk_file : \E k \in DOMAIN trk_file[i] : \E l \in DOMAIN trk_file[j] :
        <<i, k>> # <<j, l>> /\ trk_file[i][k] = trk_file[j][l]

C34_TracksPartitionGallery ==
    /\ trk_pc = "returned" =>
          LET tracks == trk_out.value
          IN  /\ \A id \in 0 .. trk_gallery_size - 1 :
                    Cardinality(Occurrences(tracks, id)) = 1
              /\ \A t \in DOMAIN tracks :
                    /\ tracks[t] # <<>>
                    /\ \A k \in DOMAIN tracks[t] :
                          tracks[t][k] \in 0 .. trk_gallery_size - 1
              /\ Len(tracks) >= Len(trk_file)
              /\ \A t \in DOMAIN trk_file :
                    /\ Len(tracks[t]) = Len(trk_file[t])
                    /\ \A k \in DOMAIN trk_file[t] : tracks[t][k] = trk_file[t][k] - 1
              /\ \A t \in Len(trk_file) + 1 .. Len(tracks) :
                    /\ Len(tracks[t]) = 1
                    /\ \A i \in DOMAIN trk_file : \A k \in DOMAIN trk_file[i] :
                          trk_file[i][k] # tracks[t][1] + 1
    /\ (trk_pc # "idle" /\ (FileHasEmptyLine \/ FileHasOutOfRangeId \/ FileHasRepeatedId))
          => trk_pc = "raised"

C34_Witness ==
    /\ trk_pc = "returned"
    /\ trk_gallery_size = 3
    /\ trk_file = <<<<3, 1>>>>
    /\ trk_out.value = <<<<2, 0>>, <<1>>>>

\* C35: models, optims and scheds always have the same keys in the same order;
\* a register_model call stores its (model, optimizer, scheduler) triple under
\* the name, where a name that exists keeps its position (so the first name
\* stays first) and a new name goes to the end, leaves every other entry as
\* it is, and does not change model_names_to_freeze.
SameKeys(a, b, c) == a = b /\ b = c

C35_RegistryMapsAligned ==
       [][ /\ SameKeys(reg_names, reg_optim_names, reg_sched_names)
           /\ SameKeys(reg_names', reg_optim_names', reg_sched_names')
           /\ reg_op' = "register" =>
                 /\ \E name \in RegistryNames, obj \in Objects :
                       /\ reg_names' = IF name \in SeqRange(reg_names)
                                       THEN reg_names
                                       ELSE reg_names \o <<name>>
                       /\ reg_model_of'[name] = obj
                       /\ reg_optim_of'[name] = obj
                       /\ reg_sched_of'[name] = obj
                       /\ \A n \in SeqRange(reg_names) \ {name} :
                             /\ reg_model_of'[n] = reg_model_of[n]
                             /\ reg_optim_of'[n] = reg_optim_of[n]
                             /\ reg_sched_of'[n] = reg_sched_of[n]
                 /\ reg_names # <<>> => reg_names'[1] = reg_names[1]
                 /\ reg_names_to_freeze' = reg_names_to_freeze
         ]_vars

C35_Witness ==
    /\ reg_op = "register"
    /\ reg_names = <<"model_0", "model_1">>
    /\ reg_names_to_freeze = <<"model_1">>
    /\ reg_model_of["model_0"] = 1
    /\ reg_optim_of["model_0"] = 1
    /\ reg_sched_of["model_0"] = 1
    /\ reg_model_of["model_1"] = 0

====
